---- MODULE Spec2Model ----
(***************************************************************************)
(* pdf_refile/main.py: OCR every PDF of a scan directory into a scratch    *)
(* directory, resolve a date stamp for it (file name, OCR text, prompt)    *)
(* and move the searchable copy into dest_dir/YYYY/MM/DD/.                 *)
(*                                                                         *)
(* Strings of the program are sequences of one-character strings, so that  *)
(* the regular expressions, strptime/strftime, slicing and splitext are    *)
(* computed character by character.  None is the empty sequence: the code  *)
(* only ever tests these values for truthiness ("if date_stamp"), and      *)
(* neither extract_date_from_filename nor parse_date returns "".           *)
(*                                                                         *)
(* Scope: scan_dir and the dest_dir date folders are disjoint trees, the   *)
(* glob result is a snapshot taken when the loop starts, and the locale    *)
(* is the C locale (English month names).                                  *)
(***************************************************************************)
EXTENDS Integers, Sequences, FiniteSets, TLC

\* ------------------------------------------------------------------------
\* Bounds of the model
\* ------------------------------------------------------------------------
\* at most this many PDF files lie in the scan directory
MaxFiles == 2

\* ------------------------------------------------------------------------
\* Characters and small string helpers
\* ------------------------------------------------------------------------
None == << >>

Digits == {"0", "1", "2", "3", "4", "5", "6", "7", "8", "9"}

Upper == {"A", "B", "C", "D", "E", "F", "G", "H", "I", "J", "K", "L", "M",
          "N", "O", "P", "Q", "R", "S", "T", "U", "V", "W", "X", "Y", "Z"}

Lower == {"a", "b", "c", "d", "e", "f", "g", "h", "i", "j", "k", "l", "m",
          "n", "o", "p", "q", "r", "s", "t", "u", "v", "w", "x", "y", "z"}

\* [A-Za-z]
Letters == Upper \cup Lower

\* \s of the re module and of str.strip(), as far as file names and text
\* lines of the model contain it
WS == {" ", "\t"}

LowerOf ==
  [c \in Upper |->
     CASE c = "A" -> "a" [] c = "B" -> "b" [] c = "C" -> "c" [] c = "D" -> "d"
       [] c = "E" -> "e" [] c = "F" -> "f" [] c = "G" -> "g" [] c = "H" -> "h"
       [] c = "I" -> "i" [] c = "J" -> "j" [] c = "K" -> "k" [] c = "L" -> "l"
       [] c = "M" -> "m" [] c = "N" -> "n" [] c = "O" -> "o" [] c = "P" -> "p"
       [] c = "Q" -> "q" [] c = "R" -> "r" [] c = "S" -> "s" [] c = "T" -> "t"
       [] c = "U" -> "u" [] c = "V" -> "v" [] c = "W" -> "w" [] c = "X" -> "x"
       [] c = "Y" -> "y" [] c = "Z" -> "z"]

\* str.lower()
ToLower(s) == [i \in 1..Len(s) |-> IF s[i] \in Upper THEN LowerOf[s[i]] ELSE s[i]]

DigitVal ==
  [c \in Digits |->
     CASE c = "0" -> 0 [] c = "1" -> 1 [] c = "2" -> 2 [] c = "3" -> 3
       [] c = "4" -> 4 [] c = "5" -> 5 [] c = "6" -> 6 [] c = "7" -> 7
       [] c = "8" -> 8 [] c = "9" -> 9]

DigitChar ==
  [n \in 0..9 |->
     CASE n = 0 -> "0" [] n = 1 -> "1" [] n = 2 -> "2" [] n = 3 -> "3"
       [] n = 4 -> "4" [] n = 5 -> "5" [] n = 6 -> "6" [] n = 7 -> "7"
       [] n = 8 -> "8" [] n = 9 -> "9"]

IsDigits(s) == \A i \in 1..Len(s) : s[i] \in Digits

\* int() of a string of decimal digits
RECURSIVE Num(_)
Num(s) == IF s = << >> THEN 0
          ELSE 10 * Num(SubSeq(s, 1, Len(s) - 1)) + DigitVal[s[Len(s)]]

\* str() of a non-negative integer, as the f-string formats the counter
RECURSIVE DecStr(_)
DecStr(n) == IF n < 10 THEN << DigitChar[n] >>
             ELSE DecStr(n \div 10) \o << DigitChar[n % 10] >>

\* a number printed with at least w digits, zero padded (%Y, %m, %d of strftime)
RECURSIVE Pad(_, _)
Pad(s, w) == IF Len(s) >= w THEN s ELSE Pad(<< "0" >> \o s, w)

\* s[a:b] of Python for 0 <= a <= b
Slice(s, a, b) == SubSeq(s, a + 1, IF b < Len(s) THEN b ELSE Len(s))

\* str.strip()
RECURSIVE Strip(_)
Strip(s) == IF s = << >> THEN s
            ELSE IF s[1] \in WS THEN Strip(Tail(s))
            ELSE IF s[Len(s)] \in WS THEN Strip(SubSeq(s, 1, Len(s) - 1))
            ELSE s

\* str.endswith / str.startswith at a position
EndsWith(s, t) == Len(s) >= Len(t) /\ SubSeq(s, Len(s) - Len(t) + 1, Len(s)) = t

DotPdf == << ".", "p", "d", "f" >>

\* ------------------------------------------------------------------------
\* parse_date
\* ------------------------------------------------------------------------
\* month names of the C locale: %B and %b match them ignoring case
MonthNames ==
  << << "j", "a", "n", "u", "a", "r", "y" >>,
     << "f", "e", "b", "r", "u", "a", "r", "y" >>,
     << "m", "a", "r", "c", "h" >>,
     << "a", "p", "r", "i", "l" >>,
     << "m", "a", "y" >>,
     << "j", "u", "n", "e" >>,
     << "j", "u", "l", "y" >>,
     << "a", "u", "g", "u", "s", "t" >>,
     << "s", "e", "p", "t", "e", "m", "b", "e", "r" >>,
     << "o", "c", "t", "o", "b", "e", "r" >>,
     << "n", "o", "v", "e", "m", "b", "e", "r" >>,
     << "d", "e", "c", "e", "m", "b", "e", "r" >> >>

\* %B: the month whose full name the field is, 0 when none
FullMonth(s) ==
  IF \E m \in 1..12 : MonthNames[m] = ToLower(s)
  THEN CHOOSE m \in 1..12 : MonthNames[m] = ToLower(s)
  ELSE 0

\* %b: the month whose three-letter abbreviation the field is, 0 when none
AbbrMonth(s) ==
  IF \E m \in 1..12 : SubSeq(MonthNames[m], 1, 3) = ToLower(s)
  THEN CHOOSE m \in 1..12 : SubSeq(MonthNames[m], 1, 3) = ToLower(s)
  ELSE 0

\* %Y: exactly four digits
YearField(s) == IF Len(s) = 4 /\ IsDigits(s) THEN Num(s) ELSE 0

\* %m: 1[0-2]|0[1-9]|[1-9]
MonthField(s) ==
  IF Len(s) \in {1, 2} /\ IsDigits(s) /\ Num(s) \in 1..12 THEN Num(s) ELSE 0

\* %d: 3[01]|[12]\d|0[1-9]|[1-9]| [1-9]
DayField(s) ==
  IF Len(s) \in {1, 2} /\ IsDigits(s) /\ Num(s) \in 1..31 THEN Num(s)
  ELSE IF Len(s) = 2 /\ s[1] = " " /\ s[2] \in Digits \ {"0"} THEN Num(<< s[2] >>)
  ELSE 0

IsLeap(y) == (y % 4 = 0 /\ y % 100 # 0) \/ y % 400 = 0

DaysInMonth(y, m) ==
  IF m = 2 THEN (IF IsLeap(y) THEN 29 ELSE 28)
  ELSE IF m \in {4, 6, 9, 11} THEN 30 ELSE 31

\* the datetime strptime builds: ValueError unless the date exists
ValidDate(y, m, d) == y \in 1..9999 /\ m \in 1..12 /\ d \in 1..DaysInMonth(y, m)

\* strftime("%Y%m%d")
Strftime(y, m, d) == Pad(DecStr(y), 4) \o Pad(DecStr(m), 2) \o Pad(DecStr(d), 2)

\* the fields of s between occurrences of the character sep
RECURSIVE Split(_, _)
Split(s, sep) ==
  IF \E i \in 1..Len(s) : s[i] = sep
  THEN LET i == CHOOSE k \in 1..Len(s) : s[k] = sep /\ \A j \in 1..(k - 1) : s[j] # sep
       IN  << SubSeq(s, 1, i - 1) >> \o Split(SubSeq(s, i + 1, Len(s)), sep)
  ELSE << s >>

\* strptime(line, "%Y<sep>%m<sep>%d").strftime("%Y%m%d"), None on ValueError
ParseYMD(line, sep) ==
  LET f == Split(line, sep) IN
  IF Len(f) = 3 /\ ValidDate(YearField(f[1]), MonthField(f[2]), DayField(f[3]))
  THEN Strftime(YearField(f[1]), MonthField(f[2]), DayField(f[3]))
  ELSE None

\* strptime(line, "%d<sep>%m<sep>%Y").strftime("%Y%m%d"), None on ValueError
ParseDMY(line, sep) ==
  LET f == Split(line, sep) IN
  IF Len(f) = 3 /\ ValidDate(YearField(f[3]), MonthField(f[2]), DayField(f[1]))
  THEN Strftime(YearField(f[3]), MonthField(f[2]), DayField(f[1]))
  ELSE None

\* the length of the longest prefix of s made of characters of set
RECURSIVE Span(_, _)
Span(s, set) == IF s # << >> /\ s[1] \in set THEN 1 + Span(Tail(s), set) ELSE 0

\* strptime(line, "%B %d, %Y").strftime("%Y%m%d") when full, with %b for %B
\* when not; a blank of the format matches one or more whitespace characters
ParseMonthName(line, full) ==
  LET n1   == Span(line, Letters)
      r1   == SubSeq(line, n1 + 1, Len(line))
      w1   == Span(r1, WS)
      r2   == SubSeq(r1, w1 + 1, Len(r1))
      n2   == Span(r2, Digits)
      r3   == SubSeq(r2, n2 + 1, Len(r2))
      w2   == Span(Tail(r3), WS)
      r4   == SubSeq(r3, w2 + 2, Len(r3))
      mm   == IF full THEN FullMonth(SubSeq(line, 1, n1))
              ELSE AbbrMonth(SubSeq(line, 1, n1))
      dd   == DayField(SubSeq(r2, 1, n2))
      yyyy == YearField(r4)
  IN  IF n1 >= 1 /\ w1 >= 1 /\ n2 >= 1 /\ r3 # << >> /\ r3[1] = "," /\ w2 >= 1
         /\ ValidDate(yyyy, mm, dd)
      THEN Strftime(yyyy, mm, dd)
      ELSE None

\* the eight formats of date_formats, tried in the order of the list
TryFormat(line, k) ==
  CASE k = 1 -> ParseYMD(line, "/")
    [] k = 2 -> ParseYMD(line, "-")
    [] k = 3 -> ParseYMD(line, ".")
    [] k = 4 -> ParseDMY(line, "/")
    [] k = 5 -> ParseDMY(line, "-")
    [] k = 6 -> ParseDMY(line, ".")
    [] k = 7 -> ParseMonthName(line, TRUE)
    [] k = 8 -> ParseMonthName(line, FALSE)

RECURSIVE ParseFrom(_, _)
ParseFrom(line, k) ==
  IF k > 8 THEN None
  ELSE IF TryFormat(line, k) # None THEN TryFormat(line, k)
  ELSE ParseFrom(line, k + 1)

parse_date(line) == ParseFrom(Strip(line), 1)

\* ------------------------------------------------------------------------
\* extract_date_from_filename
\* ------------------------------------------------------------------------
\* re.match(r'^([0-9]{8})[_-].*\.pdf$', filename)
PrefixMatch(filename) ==
  /\ Len(filename) >= 13
  /\ IsDigits(SubSeq(filename, 1, 8))
  /\ filename[9] \in {"_", "-"}
  /\ EndsWith(filename, DotPdf)

\* \s-\s matches the three characters of s that start at position i
DashAt(s, i) ==
  /\ i >= 1 /\ i + 2 <= Len(s)
  /\ s[i] \in WS /\ s[i + 1] = "-" /\ s[i + 2] \in WS

\* the length of the longest suffix of s made of characters of set
RECURSIVE SpanBack(_, _)
SpanBack(s, set) ==
  IF s # << >> /\ s[Len(s)] \in set
  THEN 1 + SpanBack(SubSeq(s, 1, Len(s) - 1), set) ELSE 0

\* the position where group 1 of
\*   re.match(r'.*\s-\s.*\s-\s([A-Za-z]+\s[0-9]{1,2},\s[0-9]{4})\.pdf$', filename)
\* starts, 0 when the pattern does not match.  The group is anchored at the
\* end of the name, so it is found from the end backwards: four digits, one
\* whitespace, a comma, one or two digits, one whitespace, a run of letters
\* that follows the second \s-\s.
DescriptiveStart(filename) ==
  LET body == SubSeq(filename, 1, Len(filename) - 4)
      n    == Len(body)
      \* day digits end at n - 6; they are one or two
      nd   == IF n >= 8 /\ body[n - 7] \in Digits THEN 2 ELSE 1
      ws1  == n - 6 - nd
      nl   == IF ws1 >= 1 THEN SpanBack(SubSeq(body, 1, ws1 - 1), Letters) ELSE 0
      g    == ws1 - nl
  IN  IF /\ EndsWith(filename, DotPdf)
         /\ n >= 9
         /\ IsDigits(SubSeq(body, n - 3, n))
         /\ body[n - 4] \in WS
         /\ body[n - 5] = ","
         /\ body[n - 6] \in Digits
         /\ ws1 >= 1 /\ body[ws1] \in WS
         /\ nl >= 1
         /\ DashAt(body, g - 3)
         /\ \E i \in 1..(g - 6) : DashAt(body, i)
      THEN g
      ELSE 0

extract_date_from_filename(filename) ==
  IF PrefixMatch(filename) THEN SubSeq(filename, 1, 8)
  ELSE IF DescriptiveStart(filename) > 0
       THEN parse_date(SubSeq(filename, DescriptiveStart(filename), Len(filename) - 4))
       ELSE None

\* os.path.splitext(name)[0]: the name up to its last dot, the whole name
\* when it has no dot or only leading dots
splitext0(name) ==
  LET dots == {i \in 1..Len(name) : name[i] = "."}
      last == CHOOSE i \in dots : \A j \in dots : j <= i
  IN  IF dots = {} \/ (\A j \in 1..(last - 1) : name[j] = ".") THEN name
      ELSE SubSeq(name, 1, last - 1)

\* ------------------------------------------------------------------------
\* The files, texts and answers the runs of the model are made of
\* ------------------------------------------------------------------------
NamePrefix == << "2", "0", "2", "4", "0", "5", "1", "7", "_", "a", ".", "p", "d", "f" >>

NameDescriptive ==
  << "R", " ", "-", " ", "C", " ", "-", " ", "M", "a", "y", " ", "1", "7", ",",
     " ", "2", "0", "2", "4", ".", "p", "d", "f" >>

\* matches the descriptive pattern, but "Foo" is no month
NameNoMonth ==
  << "R", " ", "-", " ", "C", " ", "-", " ", "F", "o", "o", " ", "1", "7", ",",
     " ", "2", "0", "2", "4", ".", "p", "d", "f" >>

NamePlain == << "a", ".", "p", "d", "f" >>

\* a PDF file of the scan directory: the directory it lies in ("" is
\* scan_dir itself, anything else a subdirectory) and its basename
Candidates ==
  { [dir |-> "", name |-> NamePrefix],
    [dir |-> "sub", name |-> NamePrefix],
    [dir |-> "", name |-> NameDescriptive],
    [dir |-> "", name |-> NameNoMonth],
    [dir |-> "", name |-> NamePlain] }

LineHello == << "h", "e", "l", "l", "o" >>

LineDMY == << "1", "7", "/", "0", "5", "/", "2", "0", "2", "4" >>

LineYMD == << " ", "2", "0", "2", "4", "-", "0", "5", "-", "1", "8" >>

\* what pdftotext can print for a file, split into lines: nothing (also
\* when pdftotext fails: its exit status is not checked), text without a
\* date, text whose second and third lines are dates
Texts == { << >>, << LineHello >>, << LineHello, LineDMY, LineYMD >> }

\* what the user can type at the prompt
Inputs ==
  { << >>, << "o" >>, << "O" >>,
    << "2", "0", "2", "4", "0", "5", "1", "8" >>,
    << "2", "0", "2", "4" >> }

\* the day of st_ctime of the files of the scan directory
CTime == << 2024, 5, 17 >>

Folder0517 == << << "2", "0", "2", "4" >>, << "0", "5" >>, << "1", "7" >> >>

\* files that may lie in the destination tree before the run
PreFile(name) ==
  [folder |-> Folder0517, name |-> name, content |-> [dir |-> "dest", name |-> name]]

PreTrees ==
  { {},
    { PreFile(NamePrefix) },
    { PreFile(NamePrefix), PreFile(splitext0(NamePrefix) \o << "_", "1" >> \o DotPdf) },
    { PreFile(NamePrefix), PreFile(splitext0(NamePrefix) \o << "_", "2" >> \o DotPdf) },
    { PreFile(NamePlain), PreFile(NameDescriptive) } }

\* ------------------------------------------------------------------------
\* State
\* ------------------------------------------------------------------------
VARIABLES
  pc,            \* the statement the main thread is at
  args_dry_run,  \* args.dry_run
  recursive,     \* args.scan_dir is not None
  installed,     \* the executables shutil.which finds
  DRY_RUN,       \* the global DRY_RUN
  handlers,      \* handle_exit is registered for SIGINT and SIGTERM
  scanFiles,     \* the PDF files that exist under scan_dir
  tmp_dir,       \* "none", "exists" or "removed": the scratch directory
  tmpFiles,      \* the basenames of the files in the scratch directory
  destDirs,      \* the date folders that exist under dest_dir
  destFiles,     \* the files that exist in the date folders
  files,         \* what is left of the glob result
  file_path,     \* the file of the current iteration
  date_stamp,
  text,          \* result.stdout.splitlines() of the current iteration
  dest_file,     \* [folder, name] chosen by the current iteration
  exc,           \* the exception that is propagating, "none" if none
  exitCode,      \* the exit status of the process, -1 while it runs
  signalled,     \* handle_exit has run
  steps,         \* what the current iteration has done so far
  placed,        \* the files moved and removed so far, with their destination
  processed,     \* the number of iterations that ran to their end
  fs0            \* the scan directory and destination tree before the run

vars == << pc, args_dry_run, recursive, installed, DRY_RUN, handlers, scanFiles,
           tmp_dir, tmpFiles, destDirs, destFiles, files, file_path, date_stamp,
           text, dest_file, exc, exitCode, signalled, steps, placed, processed, fs0 >>

NoFile == [dir |-> "", name |-> << >>]

NoDest == [folder |-> << >>, name |-> << >>]

Required == {"ocrmypdf", "pdftotext"}

Init ==
  /\ pc = "main"
  /\ args_dry_run \in BOOLEAN
  /\ recursive \in BOOLEAN
  /\ installed \in SUBSET Required
  /\ DRY_RUN = FALSE
  /\ handlers = FALSE
  /\ scanFiles \in {S \in SUBSET Candidates : Cardinality(S) <= MaxFiles}
  /\ tmp_dir = "none"
  /\ tmpFiles = {}
  /\ destFiles \in PreTrees
  /\ destDirs = {f.folder : f \in destFiles}
  /\ files = << >>
  /\ file_path = NoFile
  /\ date_stamp = None
  /\ text = << >>
  /\ dest_file = NoDest
  /\ exc = "none"
  /\ exitCode = -1
  /\ signalled = FALSE
  /\ steps = {}
  /\ placed = {}
  /\ processed = 0
  /\ fs0 = [scan |-> scanFiles, dirs |-> destDirs, files |-> destFiles]

\* ------------------------------------------------------------------------
\* Exceptions and exit
\* ------------------------------------------------------------------------
\* the statements inside the try block of process_files
InTry == {"loop", "ocr", "filename", "pdftotext", "prompt", "place", "move", "remove"}

\* the exit status the interpreter ends with when e leaves main()
ExitStatus(e) ==
  CASE e = "none" -> 0
    [] e = "SystemExit0" -> 0
    [] e = "SystemExit1" -> 1
    [] OTHER -> 1

\* exception e is raised at the current statement: inside the try block the
\* finally clause runs next, outside of it the process ends
Raise(e) ==
  /\ exc' = e
  /\ IF pc \in InTry
     THEN pc' = "finally" /\ exitCode' = exitCode
     ELSE pc' = "exited" /\ exitCode' = ExitStatus(e)

\* ------------------------------------------------------------------------
\* main
\* ------------------------------------------------------------------------
\* lines 185-214: DRY_RUN = args.dry_run, the two signal.signal calls
main ==
  /\ pc = "main"
  /\ DRY_RUN' = args_dry_run
  /\ handlers' = TRUE
  /\ pc' = "check"
  /\ UNCHANGED << args_dry_run, recursive, installed, scanFiles, tmp_dir, tmpFiles,
                  destDirs, destFiles, files, file_path, date_stamp, text, dest_file,
                  exc, exitCode, signalled, steps, placed, processed, fs0 >>

\* check_dependencies as it would be with 'pdftotext' left out of the list
MissingUtilsOcrOnly(found) == {util \in {"ocrmypdf"} : util \notin found}

\* the utilities of the list that shutil.which does not find
MissingUtils(found) == {util \in Required : util \notin found}

check_dependencies ==
  /\ pc = "check"
  /\ IF MissingUtils(installed) # {}
     THEN Raise("SystemExit1")
     ELSE pc' = "mkdtemp" /\ UNCHANGED << exc, exitCode >>
  /\ UNCHANGED << args_dry_run, recursive, installed, DRY_RUN, handlers, scanFiles,
                  tmp_dir, tmpFiles, destDirs, destFiles, files, file_path,
                  date_stamp, text, dest_file, signalled, steps, placed, processed,
                  fs0 >>

\* handle_exit as it would be without the sys.exit(0): the handler returns
\* and the main thread goes on
handle_exit_returns ==
  /\ handlers
  /\ pc \notin {"main", "exited"}
  /\ signalled' = TRUE
  /\ UNCHANGED << pc, exc, exitCode >>
  /\ UNCHANGED << args_dry_run, recursive, installed, DRY_RUN, handlers, scanFiles,
                  tmp_dir, tmpFiles, destDirs, destFiles, files, file_path,
                  date_stamp, text, dest_file, steps, placed, processed, fs0 >>

\* handle_exit: sys.exit(0) raises SystemExit in the main thread, at
\* whatever statement it is executing
handle_exit ==
  /\ handlers
  /\ pc \notin {"main", "exited"}
  /\ signalled' = TRUE
  /\ Raise("SystemExit0")
  /\ UNCHANGED << args_dry_run, recursive, installed, DRY_RUN, handlers, scanFiles,
                  tmp_dir, tmpFiles, destDirs, destFiles, files, file_path,
                  date_stamp, text, dest_file, steps, placed, processed, fs0 >>

\* ------------------------------------------------------------------------
\* process_files
\* ------------------------------------------------------------------------
\* line 110: tempfile.mkdtemp(), before the try block is entered
mkdtemp ==
  /\ pc = "mkdtemp"
  /\ tmp_dir' = "exists"
  /\ pc' = "created"
  /\ UNCHANGED << args_dry_run, recursive, installed, DRY_RUN, handlers, scanFiles,
                  tmpFiles, destDirs, destFiles, files, file_path, date_stamp, text,
                  dest_file, exc, exitCode, signalled, steps, placed, processed,
                  fs0 >>

\* the orders in which a directory walk can list the files of S
Orders(S) ==
  {q \in [1..Cardinality(S) -> S] : \A i, j \in 1..Cardinality(S) : q[i] = q[j] => i = j}

\* lines 112-116: rglob("*.pdf") lists the files of scan_dir and of its
\* subdirectories, glob("*.pdf") those of scan_dir only
glob ==
  /\ pc = "created"
  /\ files' \in Orders({f \in scanFiles : recursive \/ f.dir = ""})
  /\ pc' = "loop"
  /\ UNCHANGED << args_dry_run, recursive, installed, DRY_RUN, handlers, scanFiles,
                  tmp_dir, tmpFiles, destDirs, destFiles, file_path, date_stamp,
                  text, dest_file, exc, exitCode, signalled, steps, placed,
                  processed, fs0 >>

\* line 118: the for statement takes the next file, or leaves the try block
loop ==
  /\ pc = "loop"
  /\ IF files = << >>
     THEN /\ pc' = "finally"
          /\ UNCHANGED << files, file_path, steps >>
     ELSE /\ file_path' = Head(files)
          /\ files' = Tail(files)
          /\ steps' = {}
          /\ pc' = "ocr"
  /\ UNCHANGED << args_dry_run, recursive, installed, DRY_RUN, handlers, scanFiles,
                  tmp_dir, tmpFiles, destDirs, destFiles, date_stamp, text,
                  dest_file, exc, exitCode, signalled, placed, processed, fs0 >>

\* the failed ocrmypdf call as it would be without check=True: no exception
OcrFailedUnchecked == pc' = "filename" /\ UNCHANGED << exc, exitCode >>

\* subprocess.run(..., check=True) of ocrmypdf returned a non-zero status
OcrFailed == Raise("CalledProcessError")

\* lines 122-123: ocrmypdf writes the searchable copy into the scratch
\* directory, or fails
ocr ==
  /\ pc = "ocr"
  /\ \/ /\ tmpFiles' = tmpFiles \cup {file_path.name}
        /\ steps' = steps \cup {"ocr"}
        /\ pc' = "filename"
        /\ UNCHANGED << exc, exitCode >>
     \/ /\ OcrFailed
        /\ steps' = steps \cup {"ocr_failed"}
        /\ UNCHANGED tmpFiles
  /\ UNCHANGED << args_dry_run, recursive, installed, DRY_RUN, handlers, scanFiles,
                  tmp_dir, destDirs, destFiles, files, file_path, date_stamp, text,
                  dest_file, signalled, placed, processed, fs0 >>

\* line 126 as it would be if the text were extracted for every file
AfterFilenameAlwaysText(stamp) == "pdftotext"

\* line 126: "if date_stamp:" skips the text extraction
AfterFilename(stamp) == IF stamp # None THEN "place" ELSE "pdftotext"

\* line 125
filename ==
  /\ pc = "filename"
  /\ date_stamp' = extract_date_from_filename(file_path.name)
  /\ pc' = AfterFilename(date_stamp')
  /\ steps' = steps \cup {"filename"}
  /\ UNCHANGED << args_dry_run, recursive, installed, DRY_RUN, handlers, scanFiles,
                  tmp_dir, tmpFiles, destDirs, destFiles, files, file_path, text,
                  dest_file, exc, exitCode, signalled, placed, processed, fs0 >>

\* lines 130-134: date_stamp after the loop over the lines, stamp before it
RECURSIVE ScanLines(_, _)
ScanLines(lines, stamp) ==
  IF lines = << >> THEN stamp
  ELSE IF parse_date(Head(lines)) # None THEN parse_date(Head(lines))
  ELSE ScanLines(Tail(lines), parse_date(Head(lines)))

\* line 136: "if not date_stamp:" decides whether the user is asked
AfterText(stamp) == IF stamp = None THEN "prompt" ELSE "place"

\* lines 129-134
pdftotext ==
  /\ pc = "pdftotext"
  /\ \E t \in Texts :
       /\ text' = t
       /\ date_stamp' = ScanLines(t, date_stamp)
  /\ steps' = steps \cup {"pdftotext"}
  /\ pc' = AfterText(date_stamp')
  /\ UNCHANGED << args_dry_run, recursive, installed, DRY_RUN, handlers, scanFiles,
                  tmp_dir, tmpFiles, destDirs, destFiles, files, file_path,
                  dest_file, exc, exitCode, signalled, placed, processed, fs0 >>

\* line 138
suggested_date == Strftime(CTime[1], CTime[2], CTime[3])

\* line 153
Answer(user_input) == IF user_input # << >> THEN user_input ELSE suggested_date

\* lines 137-154: one round of the while loop.  'o' opens the viewer and
\* asks again, anything else is the date stamp
prompt ==
  /\ pc = "prompt"
  /\ \E user_input \in Inputs :
       IF ToLower(user_input) = << "o" >>
       THEN /\ steps' = steps \cup {"prompt", "open"}
            /\ UNCHANGED << date_stamp, pc >>
       ELSE /\ steps' = steps \cup {"prompt"}
            /\ date_stamp' = Answer(user_input)
            /\ pc' = "place"
  /\ UNCHANGED << args_dry_run, recursive, installed, DRY_RUN, handlers, scanFiles,
                  tmp_dir, tmpFiles, destDirs, destFiles, files, file_path, text,
                  dest_file, exc, exitCode, signalled, placed, processed, fs0 >>

\* lines 156-157: dest_dir/year/month/day, as its three components
DestFolder(stamp) == << Slice(stamp, 0, 4), Slice(stamp, 4, 6), Slice(stamp, 6, 8) >>

\* os.path.exists(os.path.join(folder, name))
Exists(folder, name, tree) == \E f \in tree : f.folder = folder /\ f.name = name

\* line 163: f"{splitext(basename)[0]}_{counter}.pdf"
Suffixed(basename, counter) == splitext0(basename) \o << "_" >> \o DecStr(counter) \o DotPdf

\* lines 162-164: the name the while loop ends with when it is entered
\* with this counter
RECURSIVE NextFree(_, _, _, _)
NextFree(folder, basename, counter, tree) ==
  IF Exists(folder, Suffixed(basename, counter), tree)
  THEN NextFree(folder, basename, counter + 1, tree)
  ELSE Suffixed(basename, counter)

\* lines 158-164 as they would be without the while loop
ChooseDestUnchecked(folder, basename, tree) == basename

\* lines 158-164
ChooseDest(folder, basename, tree) ==
  IF Exists(folder, basename, tree) THEN NextFree(folder, basename, 1, tree)
  ELSE basename

\* lines 156-164: os.makedirs and the choice of dest_file
place ==
  /\ pc = "place"
  /\ destDirs' = destDirs \cup {DestFolder(date_stamp)}
  /\ dest_file' = [folder |-> DestFolder(date_stamp),
                   name |-> ChooseDest(DestFolder(date_stamp), file_path.name, destFiles)]
  /\ steps' = steps \cup {"makedirs"}
  /\ pc' = "move"
  /\ UNCHANGED << args_dry_run, recursive, installed, DRY_RUN, handlers, scanFiles,
                  tmp_dir, tmpFiles, destFiles, files, file_path, date_stamp, text,
                  exc, exitCode, signalled, placed, processed, fs0 >>

\* line 167 as it would be without the DRY_RUN test
MovesAlways(dry) == TRUE

\* line 167
Moves(dry) == ~dry

\* shutil.move(ocr_file, dest_file): a file that is at dest_file is replaced
MoveInto(tree, dest, src) ==
  {f \in tree : ~(f.folder = dest.folder /\ f.name = dest.name)}
    \cup {[folder |-> dest.folder, name |-> dest.name, content |-> src]}

\* lines 166-168: the move of the searchable copy, which can fail, or
\* nothing in dry-run mode
move ==
  /\ pc = "move"
  /\ IF Moves(DRY_RUN)
     THEN \/ /\ destFiles' = MoveInto(destFiles, dest_file, file_path)
             /\ tmpFiles' = tmpFiles \ {file_path.name}
             /\ steps' = steps \cup {"move"}
             /\ pc' = "remove"
             /\ UNCHANGED << exc, exitCode, processed >>
          \/ /\ Raise("OSError")
             /\ UNCHANGED << destFiles, tmpFiles, steps, processed >>
     ELSE /\ pc' = "loop"
          /\ processed' = processed + 1
          /\ UNCHANGED << destFiles, tmpFiles, steps, exc, exitCode >>
  /\ UNCHANGED << args_dry_run, recursive, installed, DRY_RUN, handlers, scanFiles,
                  tmp_dir, destDirs, files, file_path, date_stamp, text, dest_file,
                  signalled, placed, fs0 >>

\* line 169 as it would be if it ran before line 168: the source is removed
\* while the searchable copy is still in the scratch directory
remove_before_move ==
  /\ pc \in {"move", "remove"}
  /\ ~DRY_RUN
  /\ file_path \in scanFiles
  /\ scanFiles' = scanFiles \ {file_path}
  /\ UNCHANGED << pc, args_dry_run, recursive, installed, DRY_RUN, handlers, tmp_dir,
                  tmpFiles, destDirs, destFiles, files, file_path, date_stamp, text,
                  dest_file, exc, exitCode, signalled, steps, placed, processed, fs0 >>

\* line 169: os.remove(file_path_str)
remove ==
  /\ pc = "remove"
  /\ scanFiles' = scanFiles \ {file_path}
  /\ placed' = placed \cup {[src |-> file_path, folder |-> dest_file.folder,
                             name |-> dest_file.name]}
  /\ steps' = steps \cup {"remove"}
  /\ processed' = processed + 1
  /\ pc' = "loop"
  /\ UNCHANGED << args_dry_run, recursive, installed, DRY_RUN, handlers, tmp_dir,
                  tmpFiles, destDirs, destFiles, files, file_path, date_stamp, text,
                  dest_file, exc, exitCode, signalled, fs0 >>

\* lines 170-171: shutil.rmtree(tmp_dir), then the exception that was
\* propagating, if any, leaves main()
finally ==
  /\ pc = "finally"
  /\ tmp_dir' = "removed"
  /\ tmpFiles' = {}
  /\ pc' = "exited"
  /\ exitCode' = ExitStatus(exc)
  /\ UNCHANGED << args_dry_run, recursive, installed, DRY_RUN, handlers, scanFiles,
                  destDirs, destFiles, files, file_path, date_stamp, text, dest_file,
                  exc, signalled, steps, placed, processed, fs0 >>

Next ==
  \/ main
  \/ check_dependencies
  \/ handle_exit
  \/ mkdtemp
  \/ glob
  \/ loop
  \/ ocr
  \/ filename
  \/ pdftotext
  \/ prompt
  \/ place
  \/ move
  \/ remove
  \/ finally

Spec == Init /\ [][Next]_vars

\* ------------------------------------------------------------------------
\* Properties
\* ------------------------------------------------------------------------
\* the current iteration has its date stamp
Resolved == pc \in {"place", "move", "remove"}

\* the lines of the extracted text that parse as a date
DateLines == {i \in 1..Len(text) : parse_date(text[i]) # None}

\* the searchable copy of source file src lies at [folder, name]
Holds(folder, name, src) ==
  [folder |-> folder, name |-> name, content |-> src] \in destFiles

\* every file the run has moved and removed is at its destination, and its
\* source is gone
PlacedStay ==
  \A p \in placed : Holds(p.folder, p.name, p.src) /\ p.src \notin scanFiles

C2_FreeDestination ==
  /\ pc = "move" =>
       LET F == dest_file.folder
           B == file_path.name
       IN  /\ ~Exists(F, dest_file.name, destFiles)
           /\ F = DestFolder(date_stamp)
           /\ IF ~Exists(F, B, destFiles)
              THEN dest_file.name = B
              ELSE \E k \in 1..(Cardinality(destFiles) + 1) :
                     /\ dest_file.name = Suffixed(B, k)
                     /\ \A j \in 1..(k - 1) : Exists(F, Suffixed(B, j), destFiles)
  /\ fs0.files \subseteq destFiles
  /\ \A p \in placed : Holds(p.folder, p.name, p.src)

\* a file has been moved to B_2.pdf
C2_Witness ==
  /\ pc = "remove"
  /\ dest_file.name = Suffixed(file_path.name, 2)
  /\ Holds(dest_file.folder, dest_file.name, file_path)

\* C3: in dry-run mode no source file is deleted and no searchable copy is
\* moved into the destination tree.
C3_DryRunKeepsFiles ==
  args_dry_run =>
    /\ scanFiles = fs0.scan
    /\ destFiles = fs0.files
    /\ placed = {}
    /\ "move" \notin steps /\ "remove" \notin steps

\* a dry run has taken a file through the whole iteration
C3_Witness == args_dry_run /\ processed >= 1 /\ "makedirs" \in steps

\* C4: in dry-run mode the scan directory and the destination tree, date
\* folders included, stay as they were before the run.
C4_DryRunNoMutation ==
  args_dry_run =>
    /\ scanFiles = fs0.scan
    /\ destFiles = fs0.files
    /\ destDirs = fs0.dirs

\* C5: when ocrmypdf or pdftotext is not installed, no scratch directory is
\* created, no file is enumerated, OCR'd, moved or deleted, and the run
\* ends with a non-zero exit status (a signal that ends the run before the
\* check has finished exits with the status of the signal handler).
C5_MissingDependency ==
  installed # Required =>
    /\ pc \in {"main", "check", "exited"}
    /\ tmp_dir = "none" /\ tmpFiles = {}
    /\ files = << >> /\ file_path = NoFile /\ steps = {} /\ processed = 0
    /\ scanFiles = fs0.scan /\ destFiles = fs0.files /\ destDirs = fs0.dirs
    /\ (pc = "exited" /\ ~signalled) => exitCode = 1

\* the dependency check has ended a run that has files to process
C5_Witness ==
  /\ installed # Required
  /\ pc = "exited" /\ exitCode = 1
  /\ scanFiles # {}

\* C6: once the scratch directory has been created, every way the run can
\* end leaves no scratch directory.
C6_ScratchRemoved == (pc = "exited" /\ tmp_dir # "none") => tmp_dir = "removed"

\* C7: when ocrmypdf fails for a file, nothing else is done for that file
\* (no text extraction, prompt, folder creation, move or delete), its source
\* stays, no later file is processed, the files placed before stay placed,
\* and the run ends with exit status 1 (0 if a signal arrives while the
\* error is propagating).
C7_OcrFailureAborts ==
  "ocr_failed" \in steps =>
    /\ steps = {"ocr_failed"}
    /\ pc \in {"finally", "exited"}
    /\ file_path \in scanFiles
    /\ \A f \in destFiles : f.content # file_path
    /\ PlacedStay
    /\ Len(files) + processed + 1 = Cardinality({f \in fs0.scan : recursive \/ f.dir = ""})
    /\ (pc = "exited" /\ ~signalled) => exitCode = 1

\* ocrmypdf has failed on the second file, after the first was placed
C7_Witness ==
  /\ "ocr_failed" \in steps
  /\ pc = "exited" /\ exitCode = 1
  /\ placed # {}

\* C8: every date stamp that reaches placement is a string of exactly eight
\* decimal digits, and every date folder has a 4-digit, a 2-digit and a
\* 2-digit component.
C8_StampIsEightDigits ==
  /\ Resolved => Len(date_stamp) = 8 /\ IsDigits(date_stamp)
  /\ \A d \in destDirs :
       /\ Len(d[1]) = 4 /\ Len(d[2]) = 2 /\ Len(d[3]) = 2
       /\ IsDigits(d[1] \o d[2] \o d[3])

C10_NoDocumentLost ==
  ~args_dry_run =>
    \A f \in fs0.scan :
      \/ f \in scanFiles
      \/ \E p \in placed : p.src = f /\ Holds(p.folder, p.name, f)

\* a move has failed after an earlier file was placed
C10_Witness ==
  /\ ~args_dry_run
  /\ exc = "OSError"
  /\ placed # {}
  /\ file_path \in scanFiles

====
